---- MODULE Spec2Model ----
(***************************************************************************)
(* Keyword validators `not`, `pattern` and `minItems` of the jsonschema     *)
(* crate, with the shared regex LRU cache and the ECMA-262 regex dialect    *)
(* translation.                                                             *)
(*                                                                          *)
(* Characters are Unicode code points, strings are sequences of code        *)
(* points.  JSON values are records tagged by "t".                          *)
(***************************************************************************)
EXTENDS Integers, Sequences, FiniteSets, TLC

VARIABLES
    cache,        \* REGEX_CACHE: [map, queue]
    engine,       \* verdict of fancy_regex is_match per (regex, text)
    compiled,     \* result of the last keyword compilation
    lastValid,    \* last is_valid call on `compiled`
    lastValidate, \* last validate call on `compiled`
    hist,         \* patterns compiled successfully so far, oldest first
    budget,       \* compilations the run may still start (SpecCache, SpecConc)
    pc,           \* per thread: position inside PatternValidator::compile
    lockOwner,    \* holder of the REGEX_CACHE mutex, 0 when free
    local,        \* per thread: locals of compile and the validator it built
    inserts,      \* per key: LruCache::insert calls since it was last absent
    built,        \* validators returned to callers and still in use
    conv          \* convert_regex run: input, intermediate and result

vars == <<cache, engine, compiled, lastValid, lastValidate, hist, budget,
          pc, lockOwner, local, inserts, built, conv>>

----------------------------------------------------------------------------
(* Bounds *)

MaxLen == 4

\* Largest minItems limit tried, and longest instance array.
MaxLimit == 2

MaxItems == 2

\* Distinct well-formed patterns of a cache run, and its compilations
\* beyond their first ones (repeated or failing).
NumPatterns == 11

MaxRepeat == 2

\* Threads of a concurrent run.
NumThreads == 2

\* Calls of compile in a concurrent run, all threads together.
MaxCompiles == 2

----------------------------------------------------------------------------
(* Code points *)

BACKSLASH == 92

Chr_c == 99

\* Input alphabet of the translation runs: \ c d W s -
Alphabet == {BACKSLASH, Chr_c, 100, 87, 115, 45}

StringsUpTo(n) == UNION {[1..k -> Alphabet] : k \in 0..n}

IsAsciiLetter(ch) == (65 <= ch /\ ch <= 90) \/ (97 <= ch /\ ch <= 122)

ToAsciiUppercase(ch) == IF 97 <= ch /\ ch <= 122 THEN ch - 32 ELSE ch

\* "[0-9]"
ClassDigit == <<91, 48, 45, 57, 93>>

\* "[^0-9]"
ClassNotDigit == <<91, 94, 48, 45, 57, 93>>

\* "[A-Za-z0-9_]"
ClassWord == <<91, 65, 45, 90, 97, 45, 122, 48, 45, 57, 95, 93>>

\* "[^A-Za-z0-9_]"
ClassNotWord == <<91, 94, 65, 45, 90, 97, 45, 122, 48, 45, 57, 95, 93>>

\* space \t \n \r U+000B U+000C U+2003 U+FEFF U+2029 U+00A0
SpaceChars == <<32, 9, 10, 13, 11, 12, 8195, 65279, 8233, 160>>

ClassSpace == <<91>> \o SpaceChars \o <<93>>

ClassNotSpace == <<91, 94>> \o SpaceChars \o <<93>>

----------------------------------------------------------------------------
(* Regex dialect translation *)

\* The character a control escape \cX stands for.
replace_control_group(letter) == ToAsciiUppercase(letter) - 64

\* CONTROL_GROUPS_RE.replace_all: leftmost, non-overlapping matches of
\* \c[A-Za-z], each replaced by its control character.
RECURSIVE ReplaceControlFrom(_, _)
ReplaceControlFrom(s, i) ==
    IF i > Len(s) THEN <<>>
    ELSE IF /\ i + 2 <= Len(s)
            /\ s[i] = BACKSLASH
            /\ s[i + 1] = Chr_c
            /\ IsAsciiLetter(s[i + 2])
         THEN <<replace_control_group(s[i + 2])>> \o ReplaceControlFrom(s, i + 3)
         ELSE <<s[i]>> \o ReplaceControlFrom(s, i + 1)

ReplaceControlGroups(s) == ReplaceControlFrom(s, 1)

\* What the scan pushes for a backslash followed by `next`.
EscapeOut(next) ==
    CASE next = 100 -> ClassDigit
      [] next = 68  -> ClassNotDigit
      [] next = 119 -> ClassWord
      [] next = 87  -> ClassNotWord
      [] next = 115 -> ClassSpace
      [] next = 83  -> ClassNotSpace
      [] OTHER      -> <<BACKSLASH, next>>

\* The scan with every backslash looked at on its own: after an escape
\* that is pushed as is, the escaped character is scanned again.
RECURSIVE ScanFrom_Rescan(_, _)
ScanFrom_Rescan(s, i) ==
    IF i > Len(s) THEN <<>>
    ELSE IF s[i] = BACKSLASH
         THEN IF i + 1 <= Len(s)
              THEN IF EscapeOut(s[i + 1]) = <<BACKSLASH, s[i + 1]>>
                   THEN <<BACKSLASH>> \o ScanFrom_Rescan(s, i + 1)
                   ELSE EscapeOut(s[i + 1]) \o ScanFrom_Rescan(s, i + 2)
              ELSE <<BACKSLASH>>
         ELSE <<s[i]>> \o ScanFrom_Rescan(s, i + 1)

\* The while-let loop of convert_regex over the chars from position i.
RECURSIVE ScanFrom(_, _)
ScanFrom(s, i) ==
    IF i > Len(s) THEN <<>>
    ELSE IF s[i] = BACKSLASH
         THEN IF i + 1 <= Len(s)
              THEN EscapeOut(s[i + 1]) \o ScanFrom(s, i + 2)
              ELSE <<BACKSLASH>>
         ELSE <<s[i]>> \o ScanFrom(s, i + 1)

\* The string handed to the matcher compiler.
TranslatePattern(pattern) == ScanFrom(ReplaceControlGroups(pattern), 1)

\* fancy_regex::Regex::new on a translated pattern over the model's
\* alphabet: a backslash with nothing after it is a trailing-backslash
\* error, \c is an invalid escape, every other escape in reach (\\ \- \A,
\* an escaped control character) and every bracket expression produced by
\* the scan is accepted.
RECURSIVE WellFormedFrom(_, _)
WellFormedFrom(s, i) ==
    IF i > Len(s) THEN TRUE
    ELSE IF s[i] = BACKSLASH
         THEN /\ i + 1 <= Len(s)
              /\ s[i + 1] # Chr_c
              /\ WellFormedFrom(s, i + 2)
         ELSE WellFormedFrom(s, i + 1)

RegexNew(out) ==
    IF WellFormedFrom(out, 1) THEN [ok |-> TRUE, re |-> out]
    ELSE [ok |-> FALSE, re |-> <<>>]

convert_regex(pattern) == RegexNew(TranslatePattern(pattern))

----------------------------------------------------------------------------
(* JSON values (serde_json::Value) *)

Null == [t |-> "Null"]

Str(s) == [t |-> "String", s |-> s]

\* serde_json::Number: PosInt(u64), NegInt(i64 < 0) or Float(f64).  A Float
\* value is kept in halves: v = 3 stands for 1.5, v = -2 for -1.0.
PosInt(n) == [t |-> "Number", k |-> "PosInt", v |-> n]

NegInt(n) == [t |-> "Number", k |-> "NegInt", v |-> n]

Float(halves) == [t |-> "Number", k |-> "Float", v |-> halves]

Arr(n) == [t |-> "Array", items |-> [i \in 1..n |-> Null]]

\* A schema object with one keyword.
Obj1(key, frag) == [t |-> "Object", members |-> <<[k |-> key, v |-> frag]>>]

Obj2(k1, f1, k2, f2) ==
    [t |-> "Object", members |-> <<[k |-> k1, v |-> f1], [k |-> k2, v |-> f2]>>]

----------------------------------------------------------------------------
(* Compilation context and pointers.  A pointer is a sequence of segments. *)

Ctx(draft, path) == [draft |-> draft, path |-> path]

as_pointer_with(ctx, segment) == Append(ctx.path, segment)

new_at_location(ctx, segment) == [ctx EXCEPT !.path = Append(@, segment)]

into_pointer(ctx) == ctx.path

----------------------------------------------------------------------------
(* LruCache *)

Capacity == 10

LruNew == [map |-> <<>>, queue |-> <<>>]

MapInsert(m, key, value) ==
    [k \in DOMAIN m \cup {key} |-> IF k = key THEN value ELSE m[k]]

MapRemove(m, key) == [k \in DOMAIN m \ {key} |-> m[k]]

\* queue.iter().position(..).unwrap(): the first index holding key.  TLC
\* stops with an error where the unwrap would panic (no such index).
Position(q, key) ==
    CHOOSE i \in 1..Len(q) : q[i] = key /\ \A j \in 1..(i - 1) : q[j] # key

RemoveAt(q, i) == SubSeq(q, 1, i - 1) \o SubSeq(q, i + 1, Len(q))

\* LruCache::get pushing the key to the back without removing its old
\* place in the queue.
LruGet_NoRemove(c, key) ==
    IF key \in DOMAIN c.map
    THEN [hit |-> TRUE,
          value |-> c.map[key],
          cache |-> [c EXCEPT !.queue = Append(c.queue, key)]]
    ELSE [hit |-> FALSE, value |-> <<>>, cache |-> c]

\* LruCache::get without the move to the back of the queue.
LruGet_NoPromote(c, key) ==
    IF key \in DOMAIN c.map
    THEN [hit |-> TRUE, value |-> c.map[key], cache |-> c]
    ELSE [hit |-> FALSE, value |-> <<>>, cache |-> c]

\* LruCache::get: on a hit the key moves to the back of the queue.
LruGet(c, key) ==
    IF key \in DOMAIN c.map
    THEN [hit |-> TRUE,
          value |-> c.map[key],
          cache |-> [c EXCEPT !.queue =
                        Append(RemoveAt(c.queue, Position(c.queue, key)), key)]]
    ELSE [hit |-> FALSE, value |-> <<>>, cache |-> c]

\* The eviction at the head of LruCache::insert.
LruEvict(c, key) ==
    IF Cardinality(DOMAIN c.map) >= Capacity /\ key \notin DOMAIN c.map
    THEN IF c.queue # <<>>
         THEN [map |-> MapRemove(c.map, Head(c.queue)), queue |-> Tail(c.queue)]
         ELSE c
    ELSE c

\* LruCache::insert.
LruInsert(c, key, value) ==
    LET e == LruEvict(c, key)
        had == key \in DOMAIN e.map
        q == IF had THEN RemoveAt(e.queue, Position(e.queue, key)) ELSE e.queue
    IN  [map |-> MapInsert(e.map, key, value), queue |-> Append(q, key)]

----------------------------------------------------------------------------
(* PatternValidator *)

\* The body of the Value::String arm once the lock is held.
PatternCompileString(ctx, pattern, c) ==
    LET g == LruGet(c, pattern.s) IN
    IF g.hit
    THEN [res |-> [ok |-> TRUE,
                   v |-> [kind |-> "pattern",
                          original |-> pattern.s,
                          pattern |-> g.value,
                          schema_path |-> as_pointer_with(ctx, "pattern")]],
          cache |-> g.cache]
    ELSE LET r == convert_regex(pattern.s) IN
         IF r.ok
         THEN [res |-> [ok |-> TRUE,
                        v |-> [kind |-> "pattern",
                               original |-> pattern.s,
                               pattern |-> r.re,
                               schema_path |-> as_pointer_with(ctx, "pattern")]],
               cache |-> LruInsert(g.cache, pattern.s, r.re)]
         ELSE [res |-> [ok |-> FALSE,
                        err |-> [kind |-> "format",
                                 schema_path |-> <<>>,
                                 instance_path |-> into_pointer(ctx),
                                 instance |-> pattern,
                                 format |-> "regex"]],
               cache |-> g.cache]

\* PatternValidator::compile.
PatternCompile(ctx, pattern, c) ==
    IF pattern.t = "String"
    THEN PatternCompileString(ctx, pattern, c)
    ELSE [res |-> [ok |-> FALSE,
                   err |-> [kind |-> "type",
                            schema_path |-> <<>>,
                            instance_path |-> into_pointer(ctx),
                            instance |-> pattern,
                            expected |-> "string"]],
          cache |-> c]

\* fancy_regex::Regex::is_match: "true", "false" (Ok) or "limit" (Err).
is_match(re, text) == engine[<<re, text>>]

\* PatternValidator::is_valid with unwrap_or(true): a matcher failure
\* counts as valid.
PatternIsValid_LimitValid(v, instance) ==
    IF instance.t = "String"
    THEN is_match(v.pattern, instance.s) # "false"
    ELSE TRUE

\* PatternValidator::is_valid.
PatternIsValid(v, instance) ==
    IF instance.t = "String"
    THEN is_match(v.pattern, instance.s) = "true"
    ELSE TRUE

\* PatternValidator::validate with the Err arm reporting an ordinary
\* mismatch.
PatternValidate_LimitAsMismatch(v, instance, instance_path) ==
    IF instance.t = "String" /\ is_match(v.pattern, instance.s) # "true"
    THEN <<[kind |-> "pattern",
            schema_path |-> v.schema_path,
            instance_path |-> instance_path,
            instance |-> instance,
            pattern |-> v.original]>>
    ELSE <<>>

\* PatternValidator::validate.
PatternValidate(v, instance, instance_path) ==
    IF instance.t = "String"
    THEN CASE is_match(v.pattern, instance.s) = "true" -> <<>>
           [] is_match(v.pattern, instance.s) = "false" ->
                <<[kind |-> "pattern",
                   schema_path |-> v.schema_path,
                   instance_path |-> instance_path,
                   instance |-> instance,
                   pattern |-> v.original]>>
           [] OTHER ->
                <<[kind |-> "backtrack_limit",
                   schema_path |-> v.schema_path,
                   instance_path |-> instance_path,
                   instance |-> instance,
                   error |-> "BacktrackLimitExceeded"]>>
    ELSE <<>>

----------------------------------------------------------------------------
(* MinItemsValidator *)

\* Value::as_u64.
as_u64(schema) ==
    IF schema.t = "Number" /\ schema.k = "PosInt"
    THEN [some |-> TRUE, n |-> schema.v]
    ELSE [some |-> FALSE, n |-> 0]

\* Value::as_f64, in halves.
as_f64(schema) ==
    IF schema.t = "Number"
    THEN [some |-> TRUE, h |-> IF schema.k = "Float" THEN schema.v ELSE 2 * schema.v]
    ELSE [some |-> FALSE, h |-> 0]

\* f64::trunc, in halves: rounds toward zero.
Trunc(h) == IF h >= 0 THEN 2 * (h \div 2) ELSE -(2 * ((-h) \div 2))

\* `limit as u64` on a whole f64: a negative value saturates to 0.  (The
\* values of the model stay far below 2^64, where the cast saturates too.)
F64AsU64(h) == IF h < 0 THEN 0 ELSE h \div 2

\* MinItemsValidator::compile without the Draft4 guard.
MinItemsCompile_AnyDraft(schema, schema_path, draft) ==
    IF as_u64(schema).some
    THEN [ok |-> TRUE,
          v |-> [kind |-> "minItems", limit |-> as_u64(schema).n,
                 schema_path |-> schema_path]]
    ELSE IF /\ as_f64(schema).some
            /\ Trunc(as_f64(schema).h) = as_f64(schema).h
         THEN [ok |-> TRUE,
               v |-> [kind |-> "minItems", limit |-> F64AsU64(as_f64(schema).h),
                      schema_path |-> schema_path]]
         ELSE [ok |-> FALSE,
               err |-> [kind |-> "non_positive_integer",
                        schema_path |-> schema_path,
                        instance_path |-> <<>>,
                        instance |-> schema]]

\* MinItemsValidator::compile.
MinItemsCompile(schema, schema_path, draft) ==
    IF as_u64(schema).some
    THEN [ok |-> TRUE,
          v |-> [kind |-> "minItems", limit |-> as_u64(schema).n,
                 schema_path |-> schema_path]]
    ELSE IF /\ draft # "Draft4"
            /\ as_f64(schema).some
            /\ Trunc(as_f64(schema).h) = as_f64(schema).h
         THEN [ok |-> TRUE,
               v |-> [kind |-> "minItems", limit |-> F64AsU64(as_f64(schema).h),
                      schema_path |-> schema_path]]
         ELSE [ok |-> FALSE,
               err |-> [kind |-> "non_positive_integer",
                        schema_path |-> schema_path,
                        instance_path |-> <<>>,
                        instance |-> schema]]

\* min_items::compile handing the context's own pointer to the validator.
MinItemsKeyword_NoSegment(ctx, schema) ==
    MinItemsCompile(schema, into_pointer(ctx), ctx.draft)

\* min_items::compile, the keyword's entry point.
MinItemsKeyword(ctx, schema) ==
    MinItemsCompile(schema, as_pointer_with(ctx, "minItems"), ctx.draft)

\* MinItemsValidator::is_valid.
MinItemsIsValid(v, instance) ==
    IF instance.t = "Array"
    THEN ~(Len(instance.items) < v.limit)
    ELSE TRUE

\* MinItemsValidator::validate.
MinItemsValidate(v, instance, instance_path) ==
    IF instance.t = "Array" /\ Len(instance.items) < v.limit
    THEN <<[kind |-> "min_items",
            schema_path |-> v.schema_path,
            instance_path |-> instance_path,
            instance |-> instance,
            limit |-> v.limit]>>
    ELSE <<>>

----------------------------------------------------------------------------
(* Schema nodes, keyword dispatch and NotValidator *)

RECURSIVE NotCompile(_, _, _)
RECURSIVE KeywordCompile(_, _, _, _)
RECURSIVE CompileMembers(_, _, _, _, _)
RECURSIVE KeywordIsValid(_, _)

Keywords == {"not", "pattern", "minItems"}

\* The compile function registered for a keyword.
KeywordCompile(ctx, key, frag, c) ==
    CASE key = "not" -> NotCompile(ctx, frag, c)
      [] key = "pattern" -> PatternCompile(ctx, frag, c)
      [] OTHER -> [res |-> MinItemsKeyword(ctx, frag), cache |-> c]

\* The keywords of a schema object in order: unregistered keys are ignored
\* and the first compile-time error aborts the node.
CompileMembers(ctx, members, i, c, acc) ==
    IF i > Len(members)
    THEN [res |-> [ok |-> TRUE,
                   node |-> [location |-> ctx.path, validators |-> acc]],
          cache |-> c]
    ELSE IF members[i].k \notin Keywords
         THEN CompileMembers(ctx, members, i + 1, c, acc)
         ELSE LET r == KeywordCompile(ctx, members[i].k, members[i].v, c) IN
              IF r.res.ok
              THEN CompileMembers(ctx, members, i + 1, r.cache, Append(acc, r.res.v))
              ELSE [res |-> r.res, cache |-> r.cache]

\* compiler::compile: a schema node at the context's location.
CompileNode(ctx, schema, c) ==
    IF schema.t = "Object"
    THEN CompileMembers(ctx, schema.members, 1, c, <<>>)
    ELSE [res |-> [ok |-> FALSE,
                   err |-> [kind |-> "invalid_schema",
                            schema_path |-> <<>>,
                            instance_path |-> into_pointer(ctx),
                            instance |-> schema]],
          cache |-> c]

\* NotValidator::compile.
NotCompile(ctx, schema, c) ==
    LET inner == new_at_location(ctx, "not")
        n == CompileNode(inner, schema, c)
    IN  IF n.res.ok
        THEN [res |-> [ok |-> TRUE,
                       v |-> [kind |-> "not", original |-> schema,
                              node |-> n.res.node]],
              cache |-> n.cache]
        ELSE n

\* SchemaNode::is_valid: every keyword validator of the node accepts.
NodeIsValid(node, instance) ==
    \A i \in 1..Len(node.validators) : KeywordIsValid(node.validators[i], instance)

\* SchemaNode::location.
NodeLocation(node) == node.location

\* NotValidator::is_valid without the negation.
NotIsValid_NoNegation(v, instance) == NodeIsValid(v.node, instance)

\* NotValidator::is_valid.
NotIsValid(v, instance) == ~NodeIsValid(v.node, instance)

\* Validate::is_valid through the trait object.
KeywordIsValid(v, instance) ==
    CASE v.kind = "not" -> NotIsValid(v, instance)
      [] v.kind = "pattern" -> PatternIsValid(v, instance)
      [] OTHER -> MinItemsIsValid(v, instance)

\* NotValidator::validate.
NotValidate(v, instance, location) ==
    IF NotIsValid(v, instance)
    THEN <<>>
    ELSE <<[kind |-> "not",
            schema_path |-> NodeLocation(v.node),
            instance_path |-> location,
            instance |-> instance,
            schema |-> v.original]>>

\* Validate::validate through the trait object.
KeywordValidate(v, instance, instance_path) ==
    CASE v.kind = "not" -> NotValidate(v, instance, instance_path)
      [] v.kind = "pattern" -> PatternValidate(v, instance, instance_path)
      [] OTHER -> MinItemsValidate(v, instance, instance_path)

----------------------------------------------------------------------------
(* Inputs of the keyword runs *)

\* Pattern number i: \d followed by a lower-case letter, so that the
\* translated matcher "[0-9]a" differs from the original pattern.
Pat(i) == <<BACKSLASH, 100, 96 + i>>

\* A pattern that ends in an incomplete escape.
PatBad == <<BACKSLASH, 100, BACKSLASH>>

Text1 == <<55, 97>>

Text2 == <<120>>

Texts == {Text1, Text2}

Outcomes == {"true", "false", "limit"}

Drafts == {"Draft4", "Draft7", "Draft202012"}

Paths == {<<>>, <<"items">>}

PatternFragments == {Str(Pat(1)), Str(PatBad), Null}

MinItemsFragments ==
    {PosInt(n) : n \in 0..MaxLimit}
        \cup {NegInt(-1)}
        \cup {Float(h) : h \in (-2)..(2 * MaxLimit)}
        \cup {Str(Text1)}

LeafSchemas ==
    {Obj1("pattern", f) : f \in PatternFragments}
        \cup {Obj1("minItems", f) : f \in MinItemsFragments}
        \cup {Obj1("title", Str(Text1)),
              Obj2("pattern", Str(Pat(1)), "minItems", PosInt(1)),
              Obj2("minItems", Float(3), "pattern", Str(Pat(1)))}

NotFragments ==
    LeafSchemas \cup {Obj1("not", f) : f \in LeafSchemas} \cup {Null}

Fragments(key) ==
    CASE key = "not" -> NotFragments
      [] key = "pattern" -> PatternFragments
      [] OTHER -> MinItemsFragments

Instances ==
    {Str(t) : t \in Texts} \cup {Arr(n) : n \in 0..MaxItems} \cup {Null}

InstancePaths == {<<>>, <<"0">>}

NoCall == [called |-> FALSE]

NoCompile == [key |-> "none"]

NoConv == [stage |-> "none"]

----------------------------------------------------------------------------
(* Keyword runs: compile one keyword, then call the validator in both modes *)

KeywordVarsIdle ==
    /\ hist = <<>>
    /\ budget = 0
    /\ pc = <<>>
    /\ lockOwner = 0
    /\ local = <<>>
    /\ inserts = <<>>
    /\ built = {}
    /\ conv = NoConv

Init ==
    /\ cache = LruNew
    /\ engine \in [{TranslatePattern(Pat(1))} \X Texts -> Outcomes]
    /\ compiled = NoCompile
    /\ lastValid = NoCall
    /\ lastValidate = NoCall
    /\ KeywordVarsIdle

\* A keyword's compile function run on a fragment of a schema.
Compile(draft, path, key, frag) ==
    LET ctx == Ctx(draft, path)
        r == KeywordCompile(ctx, key, frag, cache)
    IN  /\ compiled = NoCompile
        /\ compiled' = [key |-> key, frag |-> frag, ctx |-> ctx, res |-> r.res]
        /\ cache' = r.cache
        /\ UNCHANGED <<engine, lastValid, lastValidate, hist, budget, pc,
                       lockOwner, local, inserts, built, conv>>

\* The compilation result is dropped; the cache outlives it.
Drop ==
    /\ compiled # NoCompile
    /\ compiled' = NoCompile
    /\ lastValid' = NoCall
    /\ lastValidate' = NoCall
    /\ UNCHANGED <<cache, engine, hist, budget, pc, lockOwner, local, inserts, built, conv>>

HasValidator == compiled.key # "none" /\ compiled.res.ok

\* is_valid on the compiled validator.
IsValidCall(instance) ==
    /\ HasValidator
    /\ lastValid' = [called |-> TRUE, instance |-> instance,
                     result |-> KeywordIsValid(compiled.res.v, instance)]
    /\ UNCHANGED <<cache, engine, compiled, lastValidate, hist, budget, pc,
                   lockOwner, local, inserts, built, conv>>

\* validate on the compiled validator.
ValidateCall(instance, instance_path) ==
    /\ HasValidator
    /\ lastValidate' = [called |-> TRUE, instance |-> instance,
                        instance_path |-> instance_path,
                        errors |-> KeywordValidate(compiled.res.v, instance,
                                                   instance_path)]
    /\ UNCHANGED <<cache, engine, compiled, lastValid, hist, budget, pc,
                   lockOwner, local, inserts, built, conv>>

Next ==
    \/ \E d \in Drafts, p \in Paths, key \in Keywords :
         \E frag \in Fragments(key) : Compile(d, p, key, frag)
    \/ \E i \in Instances : IsValidCall(i)
    \/ \E i \in Instances, ip \in InstancePaths : ValidateCall(i, ip)
    \/ Drop

Spec == Init /\ [][Next]_vars

----------------------------------------------------------------------------
(* Claims about the keyword runs *)

BothCalled ==
    /\ HasValidator
    /\ lastValid # NoCall
    /\ lastValidate # NoCall
    /\ lastValid.instance = lastValidate.instance

\* C1: for each of the three keyword validators and every instance,
\* is_valid returns true exactly when validate yields no error; a matcher
\* failure is invalid in both modes and an instance of a type the keyword
\* does not constrain is valid in both.
ModesAgree ==
    BothCalled => (lastValid.result <=> (lastValidate.errors = <<>>))

\* C1 witness: a pattern validator whose matcher failed on the instance;
\* is_valid said false and validate produced an error.
ModesAgreeWitness ==
    /\ BothCalled
    /\ compiled.key = "pattern"
    /\ lastValid.instance.t = "String"
    /\ engine[<<compiled.res.v.pattern, lastValid.instance.s>>] = "limit"
    /\ ~lastValid.result
    /\ lastValidate.errors # <<>>

\* C3: a minItems validator exists only for a non-negative integral
\* fragment, and its limit equals the fragment's value.
MinItemsOnlyNatural ==
    (compiled.key = "minItems" /\ compiled.res.ok) =>
        /\ compiled.frag.t = "Number"
        /\ \/ compiled.frag.k = "PosInt" /\ compiled.res.v.limit = compiled.frag.v
           \/ /\ compiled.frag.k = "Float"
              /\ compiled.frag.v >= 0
              /\ compiled.frag.v % 2 = 0
              /\ 2 * compiled.res.v.limit = compiled.frag.v

IsWholeFloat(frag) == frag.t = "Number" /\ frag.k = "Float" /\ frag.v % 2 = 0

\* The integer fragment equal in value to a whole float.
EqualInteger(frag) ==
    IF frag.v >= 0 THEN PosInt(frag.v \div 2) ELSE NegInt(-((-frag.v) \div 2))

\* C4: outside Draft 4 a whole float limit compiles and the validator
\* behaves like the one compiled from the equal integer; a fractional float
\* never compiles; under Draft 4 no float compiles while a non-negative
\* integer does.
MinItemsLeniency ==
    compiled.key = "minItems" =>
        LET frag == compiled.frag
            draft == compiled.ctx.draft
            twin == MinItemsKeyword(compiled.ctx, EqualInteger(frag))
        IN  /\ (IsWholeFloat(frag) /\ draft # "Draft4") =>
                  /\ compiled.res.ok
                  /\ twin.ok
                  /\ compiled.res.v = twin.v
                  /\ lastValid # NoCall =>
                        lastValid.result = MinItemsIsValid(twin.v, lastValid.instance)
                  /\ lastValidate # NoCall =>
                        lastValidate.errors =
                            MinItemsValidate(twin.v, lastValidate.instance,
                                             lastValidate.instance_path)
            /\ (frag.t = "Number" /\ frag.k = "Float" /\ frag.v % 2 = 1) =>
                  ~compiled.res.ok
            /\ (frag.t = "Number" /\ frag.k = "Float" /\ draft = "Draft4") =>
                  ~compiled.res.ok
            /\ (frag.t = "Number" /\ frag.k = "PosInt") =>
                  compiled.res.ok /\ compiled.res.v.limit = frag.v

\* C4 witness: the limit 1.0 under Draft 7 and the instance [null, null],
\* found valid.
MinItemsLeniencyWitness ==
    /\ compiled.key = "minItems"
    /\ compiled.frag = Float(2)
    /\ compiled.ctx.draft = "Draft7"
    /\ compiled.res.ok
    /\ lastValid # NoCall
    /\ lastValid.instance = Arr(2)
    /\ lastValid.result

\* C5: every runtime error carries the compile-time context's pointer
\* extended by the keyword's own segment, whatever the instance, and the
\* instance pointer the caller supplied; for `not` that schema pointer is
\* the nested node's location.
ErrorPointers ==
    (HasValidator /\ lastValidate # NoCall) =>
        \A i \in 1..Len(lastValidate.errors) :
            /\ lastValidate.errors[i].schema_path =
                   Append(compiled.ctx.path, compiled.key)
            /\ lastValidate.errors[i].instance_path = lastValidate.instance_path
            /\ compiled.key = "not" =>
                   lastValidate.errors[i].schema_path = compiled.res.v.node.location

\* C5 witness: a minItems error raised below the root of the schema, at a
\* nested instance.
ErrorPointersWitness ==
    /\ HasValidator
    /\ compiled.key = "minItems"
    /\ compiled.ctx.path = <<"items">>
    /\ lastValidate # NoCall
    /\ lastValidate.instance_path = <<"0">>
    /\ Len(lastValidate.errors) = 1
    /\ lastValidate.errors[1].schema_path = <<"items", "minItems">>

\* The node of the operand of the compiled `not`, compiled on its own.
OperandNode ==
    CompileNode(new_at_location(compiled.ctx, "not"), compiled.frag, LruNew).res

\* C6: not(T) is valid on an instance exactly when T's node is not; when
\* T's node is valid, validate yields exactly one negation error carrying
\* the original operand, otherwise none; when T does not compile, not(T)
\* fails with T's error and yields no validator.
Negation ==
    compiled.key = "not" =>
        /\ compiled.res.ok = OperandNode.ok
        /\ ~compiled.res.ok => compiled.res = OperandNode
        /\ compiled.res.ok =>
              /\ compiled.res.v.node = OperandNode.node
              /\ lastValid # NoCall =>
                    (lastValid.result <=>
                        ~NodeIsValid(OperandNode.node, lastValid.instance))
              /\ lastValidate # NoCall =>
                    IF NodeIsValid(OperandNode.node, lastValidate.instance)
                    THEN /\ Len(lastValidate.errors) = 1
                         /\ lastValidate.errors[1].kind = "not"
                         /\ lastValidate.errors[1].schema = compiled.frag
                    ELSE lastValidate.errors = <<>>

\* C6 witness: the negation of a pattern schema, on a string the pattern
\* matches: one negation error.
NegationWitness ==
    /\ HasValidator
    /\ compiled.key = "not"
    /\ compiled.frag = Obj1("pattern", Str(Pat(1)))
    /\ lastValidate # NoCall
    /\ lastValidate.instance = Str(Text1)
    /\ Len(lastValidate.errors) = 1
    /\ lastValidate.errors[1].kind = "not"

\* The verdict of the matcher compiled from the pattern fragment.
Verdict(text) == engine[<<TranslatePattern(compiled.frag.s), text>>]

\* C7: a pattern validator accepts every non-string; on a string it
\* accepts a match, reports one pattern error carrying the original
\* pattern on a mismatch, and one backtrack-limit error on a matcher
\* failure, for which is_valid is false.
PatternOutcomes ==
    (HasValidator /\ compiled.key = "pattern") =>
        /\ lastValidate # NoCall =>
              LET inst == lastValidate.instance
                  errs == lastValidate.errors
              IN  IF inst.t # "String" THEN errs = <<>>
                  ELSE CASE Verdict(inst.s) = "true" -> errs = <<>>
                         [] Verdict(inst.s) = "false" ->
                              /\ Len(errs) = 1
                              /\ errs[1].kind = "pattern"
                              /\ errs[1].pattern = compiled.frag.s
                         [] OTHER ->
                              /\ Len(errs) = 1
                              /\ errs[1].kind = "backtrack_limit"
        /\ lastValid # NoCall =>
              LET inst == lastValid.instance
              IN  IF inst.t # "String" THEN lastValid.result
                  ELSE lastValid.result <=> (Verdict(inst.s) = "true")

\* C7 witness: a matcher failure reported as a backtrack-limit error.
PatternOutcomesWitness ==
    /\ HasValidator
    /\ compiled.key = "pattern"
    /\ lastValidate # NoCall
    /\ lastValidate.instance.t = "String"
    /\ Verdict(lastValidate.instance.s) = "limit"
    /\ Len(lastValidate.errors) = 1
    /\ lastValidate.errors[1].kind = "backtrack_limit"

----------------------------------------------------------------------------
(* Translation runs: convert_regex on every string over the alphabet *)

ConvVarsIdle ==
    /\ cache = LruNew
    /\ engine = <<>>
    /\ compiled = NoCompile
    /\ lastValid = NoCall
    /\ lastValidate = NoCall
    /\ hist = <<>>
    /\ budget = 0
    /\ pc = <<>>
    /\ lockOwner = 0
    /\ local = <<>>
    /\ inserts = <<>>
    /\ built = {}

InitConv ==
    /\ conv \in {[stage |-> "input", pattern |-> p] : p \in StringsUpTo(MaxLen)}
    /\ ConvVarsIdle

\* convert_regex(pattern).
ConvertRegex ==
    /\ conv.stage = "input"
    /\ conv' = [stage |-> "converted",
                pattern |-> conv.pattern,
                new_pattern |-> ReplaceControlGroups(conv.pattern),
                out |-> ScanFrom(ReplaceControlGroups(conv.pattern), 1),
                ok |-> convert_regex(conv.pattern).ok]
    /\ UNCHANGED <<cache, engine, compiled, lastValid, lastValidate, hist, budget,
                   pc, lockOwner, local, inserts, built>>

\* The translated string is handed to the translation once more.
Retranslate ==
    /\ conv.stage = "converted"
    /\ conv' = [conv EXCEPT !.stage = "again", !.out = TranslatePattern(conv.out)]
    /\ UNCHANGED <<cache, engine, compiled, lastValid, lastValidate, hist, budget,
                   pc, lockOwner, local, inserts, built>>

NextConv == ConvertRegex \/ Retranslate

SpecConv == InitConv /\ [][NextConv]_vars

\* Number of consecutive backslashes that end right before position i.
RECURSIVE BackslashesBefore(_, _)
BackslashesBefore(s, i) ==
    IF i > 1 /\ s[i - 1] = BACKSLASH THEN 1 + BackslashesBefore(s, i - 1) ELSE 0

\* Position i opens an escape: a backslash after an even run of them.
OpensEscape(s, i) == s[i] = BACKSLASH /\ BackslashesBefore(s, i) % 2 = 0

\* Position i is the second character of an escape.
IsEscaped(s, i) == i > 1 /\ OpensEscape(s, i - 1)

ShorthandOf(ch) ==
    CASE ch = 100 -> "[0-9]"
      [] ch = 68  -> "[^0-9]"
      [] ch = 119 -> "[A-Za-z0-9_]"
      [] ch = 87  -> "[^A-Za-z0-9_]"
      [] ch = 115 -> "[space]"
      [] ch = 83  -> "[^space]"
      [] OTHER    -> "none"

\* What position i of the control-replaced string contributes to the
\* output, told from the parity of the backslashes before it.
Contribution(s, i) ==
    IF IsEscaped(s, i) THEN <<>>
    ELSE IF OpensEscape(s, i) /\ i < Len(s)
         THEN CASE ShorthandOf(s[i + 1]) = "[0-9]" -> ClassDigit
                [] ShorthandOf(s[i + 1]) = "[^0-9]" -> ClassNotDigit
                [] ShorthandOf(s[i + 1]) = "[A-Za-z0-9_]" -> ClassWord
                [] ShorthandOf(s[i + 1]) = "[^A-Za-z0-9_]" -> ClassNotWord
                [] ShorthandOf(s[i + 1]) = "[space]" -> ClassSpace
                [] ShorthandOf(s[i + 1]) = "[^space]" -> ClassNotSpace
                [] OTHER -> <<s[i], s[i + 1]>>
         ELSE <<s[i]>>

RECURSIVE Contributions(_, _)
Contributions(s, n) ==
    IF n = 0 THEN <<>> ELSE Contributions(s, n - 1) \o Contribution(s, n)

\* The string ends in a backslash that opens an escape with nothing after.
EndsUnpaired(s) == s # <<>> /\ OpensEscape(s, Len(s))

\* C10: after the control-escape pass the escapes are read as left-to-right
\* backslash pairs: a shorthand pair becomes its bracket expression, any
\* other pair and any other character is emitted as is (an escaped
\* backslash followed by a shorthand letter leaves the letter alone), a
\* backslash left unpaired at the end is emitted and makes the matcher
\* compiler fail, and translating the translation changes nothing.
TranslationPairs ==
    conv.stage # "input" =>
        /\ conv.out = Contributions(conv.new_pattern, Len(conv.new_pattern))
        /\ EndsUnpaired(conv.new_pattern) =>
              ~conv.ok /\ conv.out[Len(conv.out)] = BACKSLASH
        /\ conv.pattern \in {<<BACKSLASH>>, <<BACKSLASH, 100, BACKSLASH>>} => ~conv.ok
        /\ (\E k \in 0..Len(conv.new_pattern) :
               /\ k + 3 <= Len(conv.new_pattern)
               /\ \A j \in 1..Len(conv.new_pattern) :
                     conv.new_pattern[j] = BACKSLASH <=> j \in {k + 1, k + 2})
              => conv.out = conv.new_pattern

\* C10 witness: \\d\ (an escaped backslash, a plain d, an unpaired
\* backslash) is emitted unchanged, rejected by the matcher compiler, and
\* unchanged again by a second translation.
TranslationPairsWitness ==
    /\ conv.stage = "again"
    /\ conv.pattern = <<BACKSLASH, BACKSLASH, 100, BACKSLASH>>
    /\ conv.out = conv.pattern
    /\ ~conv.ok

----------------------------------------------------------------------------
(* Cache runs: pattern compilations one after the other *)

CacheVarsIdle ==
    /\ engine = <<>>
    /\ compiled = NoCompile
    /\ lastValid = NoCall
    /\ lastValidate = NoCall
    /\ pc = <<>>
    /\ lockOwner = 0
    /\ local = <<>>
    /\ inserts = <<>>
    /\ built = {}
    /\ conv = NoConv

InitCache ==
    /\ cache = LruNew
    /\ hist = <<>>
    /\ budget = MaxRepeat
    /\ CacheVarsIdle

Range(q) == {q[i] : i \in 1..Len(q)}

\* PatternValidator::compile on a fragment; hist records the pattern when
\* a validator is returned.
CompileThrough(frag) ==
    LET r == PatternCompile(Ctx("Draft7", <<>>), frag, cache)
    IN  /\ cache' = r.cache
        /\ hist' = IF r.res.ok THEN Append(hist, frag.s) ELSE hist

\* The next pattern never compiled before.
CompileFresh ==
    /\ Cardinality(Range(hist)) < NumPatterns
    /\ CompileThrough(Str(Pat(Cardinality(Range(hist)) + 1)))
    /\ UNCHANGED <<engine, compiled, lastValid, lastValidate, budget, pc,
                   lockOwner, local, inserts, built, conv>>

\* A pattern compiled before, cached or evicted by now.
CompileAgain(i) ==
    /\ budget > 0
    /\ Pat(i) \in Range(hist)
    /\ CompileThrough(Str(Pat(i)))
    /\ budget' = budget - 1
    /\ UNCHANGED <<engine, compiled, lastValid, lastValidate, pc, lockOwner,
                   local, inserts, built, conv>>

\* A fragment that does not compile: a malformed pattern or a non-string.
CompileFailing(frag) ==
    /\ budget > 0
    /\ CompileThrough(frag)
    /\ budget' = budget - 1
    /\ UNCHANGED <<engine, compiled, lastValid, lastValidate, pc, lockOwner,
                   local, inserts, built, conv>>

NextCache ==
    \/ CompileFresh
    \/ \E i \in 1..NumPatterns : CompileAgain(i)
    \/ \E frag \in {Str(PatBad), Null} : CompileFailing(frag)

SpecCache == InitCache /\ [][NextCache]_vars

\* The entries of h that do not occur again later in h, in order.
RECURSIVE LastOccurrences(_)
LastOccurrences(h) ==
    IF h = <<>> THEN <<>>
    ELSE IF Head(h) \in Range(Tail(h))
         THEN LastOccurrences(Tail(h))
         ELSE <<Head(h)>> \o LastOccurrences(Tail(h))

LastN(q, n) == IF Len(q) <= n THEN q ELSE SubSeq(q, Len(q) - n + 1, Len(q))

\* hist is p1 .. p11 in order with one more compilation of p_i right after
\* the first compilation of p_k.
RepeatAfter(i, k) ==
    hist = [j \in 1..12 |-> IF j <= k THEN Pat(j)
                            ELSE IF j = k + 1 THEN Pat(i) ELSE Pat(j - 1)]

\* The cache holds at most 10 entries: the most recently compiled distinct
\* patterns, least recent first, each with its translation; after p1 .. p11
\* in order p1 is gone and p2 .. p11 are cached.
RecentDistinct ==
    /\ Len(cache.queue) <= Capacity
    /\ cache.queue = LastN(LastOccurrences(hist), Capacity)
    /\ DOMAIN cache.map = Range(cache.queue)
    /\ \A k \in DOMAIN cache.map : cache.map[k] = TranslatePattern(k)
    /\ hist = [j \in 1..11 |-> Pat(j)] =>
          /\ Pat(1) \notin DOMAIN cache.map
          /\ \A j \in 2..11 : Pat(j) \in DOMAIN cache.map

\* C2 as stated: RecentDistinct, and whenever some p_i was compiled again
\* anywhere between p1 and p11, it is still cached at the end and the
\* next-oldest pattern is gone instead.
LruContentsAnyRepeat ==
    /\ RecentDistinct
    /\ \A i \in 1..10 : \A k \in i..10 :
          RepeatAfter(i, k) =>
              /\ Pat(i) \in DOMAIN cache.map
              /\ Pat(IF i = 1 THEN 2 ELSE 1) \notin DOMAIN cache.map

\* C2 amended: RecentDistinct, and whenever some p_i was compiled again
\* after a later pattern had been compiled, it is still cached at the end
\* and the oldest pattern not compiled again (p2 for i = 1, else p1) is
\* the one that is gone.
LruContents ==
    /\ RecentDistinct
    /\ \A i \in 1..9 : \A k \in (i + 1)..10 :
          RepeatAfter(i, k) =>
              /\ Pat(i) \in DOMAIN cache.map
              /\ Pat(IF i = 1 THEN 2 ELSE 1) \notin DOMAIN cache.map
              /\ Cardinality(DOMAIN cache.map) = Capacity

\* C2 witness: p1, p2, p1 again, then p3 .. p11: p1 was promoted and is
\* still cached, p2 was evicted in its place.
LruContentsWitness ==
    /\ hist = <<Pat(1), Pat(2), Pat(1)>> \o [j \in 1..9 |-> Pat(j + 2)]
    /\ Pat(1) \in DOMAIN cache.map
    /\ Pat(2) \notin DOMAIN cache.map
    /\ Len(cache.queue) = Capacity

----------------------------------------------------------------------------
(* Concurrent runs: threads inside PatternValidator::compile, step by step *)

Threads == 1..NumThreads

RootCtx == Ctx("Draft7", <<>>)

\* The cache after Pat(i) .. Pat(Capacity) were compiled in order into c.
RECURSIVE CompileAll(_, _)
CompileAll(i, c) ==
    IF i > Capacity THEN c
    ELSE CompileAll(i + 1, PatternCompile(RootCtx, Str(Pat(i)), c).cache)

\* The matcher's verdicts in the concurrent runs.
EngineConc ==
    [x \in {TranslatePattern(Pat(i)) : i \in 1..(Capacity + 1)} \X Texts |->
        IF x[2] = Text1 THEN "true"
        ELSE IF x[1] = TranslatePattern(Pat(1)) THEN "limit" ELSE "false"]

ConcFragments == {Str(Pat(1)), Str(Pat(Capacity + 1)), Str(PatBad), Null}

ConcInstances == {Str(Text1), Str(Text2)}

ConcVarsIdle ==
    /\ compiled = NoCompile
    /\ lastValid = NoCall
    /\ hist = <<>>
    /\ conv = NoConv

\* The state after Pat(1) .. Pat(Capacity) were compiled in order and the
\* validator of Pat(1) was kept: the cache is full and Pat(1) is its least
\* recently used entry.
InitConc ==
    /\ cache = CompileAll(1, LruNew)
    /\ engine = EngineConc
    /\ pc = [t \in Threads |-> "idle"]
    /\ lockOwner = 0
    /\ local = [t \in Threads |->
                  [item |-> Null, regex |-> <<>>]]
    /\ budget = MaxCompiles
    /\ inserts = [k \in {Pat(i) : i \in 1..(Capacity + 1)} |-> 0]
    /\ built = {PatternCompile(RootCtx, Str(Pat(1)), LruNew).res.v}
    /\ lastValidate = NoCall
    /\ ConcVarsIdle

ConcFrame == <<engine, compiled, lastValid, hist, conv>>

\* compile is called with a string: the thread goes on to REGEX_CACHE.lock().
CallString(t, frag) ==
    /\ pc[t] = "idle"
    /\ budget > 0
    /\ frag.t = "String"
    /\ pc' = [pc EXCEPT ![t] = "lock"]
    /\ local' = [local EXCEPT ![t].item = frag]
    /\ budget' = budget - 1
    /\ UNCHANGED <<cache, lockOwner, inserts, built, lastValidate>>
    /\ UNCHANGED ConcFrame

\* compile is called with a non-string: the type error is returned, the
\* lock is not taken.
CallOther(t, frag) ==
    /\ pc[t] = "idle"
    /\ budget > 0
    /\ frag.t # "String"
    /\ ~PatternCompile(RootCtx, frag, cache).res.ok
    /\ budget' = budget - 1
    /\ UNCHANGED <<cache, pc, lockOwner, local, inserts, built, lastValidate>>
    /\ UNCHANGED ConcFrame

\* REGEX_CACHE.lock() returns the guard.
Acquire(t) ==
    /\ pc[t] = "lock"
    /\ lockOwner = 0
    /\ lockOwner' = t
    /\ pc' = [pc EXCEPT ![t] = "get"]
    /\ UNCHANGED <<cache, local, inserts, built, lastValidate>>
    /\ UNCHANGED <<budget, ConcFrame>>

\* cache.get(item): a hit clones the matcher, a miss goes on to translate.
Get(t) ==
    /\ pc[t] = "get"
    /\ LET g == LruGet(cache, local[t].item.s)
       IN  /\ cache' = g.cache
           /\ IF g.hit
              THEN /\ local' = [local EXCEPT ![t].regex = g.value]
                   /\ pc' = [pc EXCEPT ![t] = "build"]
              ELSE /\ local' = local
                   /\ pc' = [pc EXCEPT ![t] = "convert"]
    /\ UNCHANGED <<lockOwner, inserts, built, lastValidate>>
    /\ UNCHANGED <<budget, ConcFrame>>

\* The Err arm returning while the guard stays alive.
Convert_KeepGuard(t) ==
    /\ pc[t] = "convert"
    /\ LET r == convert_regex(local[t].item.s)
       IN  IF r.ok
           THEN /\ local' = [local EXCEPT ![t].regex = r.re]
                /\ pc' = [pc EXCEPT ![t] = "insert"]
           ELSE /\ local' = [local EXCEPT ![t].item = Null]
                /\ pc' = [pc EXCEPT ![t] = "idle"]
    /\ UNCHANGED <<cache, lockOwner, inserts, built, lastValidate>>
    /\ UNCHANGED <<budget, ConcFrame>>

\* convert_regex(item): Ok goes on to the insert, Err returns the format
\* error, which drops the guard.
Convert(t) ==
    /\ pc[t] = "convert"
    /\ LET r == convert_regex(local[t].item.s)
       IN  IF r.ok
           THEN /\ local' = [local EXCEPT ![t].regex = r.re]
                /\ pc' = [pc EXCEPT ![t] = "insert"]
                /\ lockOwner' = lockOwner
           ELSE /\ local' = [local EXCEPT ![t].item = Null]
                /\ pc' = [pc EXCEPT ![t] = "idle"]
                /\ lockOwner' = 0
    /\ UNCHANGED <<cache, inserts, built, lastValidate>>
    /\ UNCHANGED <<budget, ConcFrame>>

\* cache.insert(item.clone(), regex.clone()).
Insert(t) ==
    /\ pc[t] = "insert"
    /\ cache' = LruInsert(cache, local[t].item.s, local[t].regex)
    /\ inserts' = [k \in DOMAIN inserts |->
                     IF k = local[t].item.s THEN inserts[k] + 1
                     ELSE IF k \in DOMAIN cache'.map THEN inserts[k] ELSE 0]
    /\ pc' = [pc EXCEPT ![t] = "build"]
    /\ UNCHANGED <<lockOwner, local, built, lastValidate>>
    /\ UNCHANGED <<budget, ConcFrame>>

\* Ok(Box::new(PatternValidator {..})); the guard is dropped at the end of
\* the arm.
Build(t) ==
    /\ pc[t] = "build"
    /\ built' = built \cup
                  {[kind |-> "pattern",
                    original |-> local[t].item.s,
                    pattern |-> local[t].regex,
                    schema_path |-> as_pointer_with(RootCtx, "pattern")]}
    /\ local' = [local EXCEPT ![t].item = Null, ![t].regex = <<>>]
    /\ lockOwner' = 0
    /\ pc' = [pc EXCEPT ![t] = "idle"]
    /\ UNCHANGED <<cache, inserts, lastValidate>>
    /\ UNCHANGED <<budget, ConcFrame>>

\* A thread that is not compiling calls is_valid and validate on a
\* validator in use.
ValidateBy(t, v, instance) ==
    /\ pc[t] = "idle"
    /\ lastValidate' = [called |-> TRUE, by |-> t, instance |-> instance,
                        original |-> v.original,
                        cached |-> v.original \in DOMAIN cache.map,
                        valid |-> PatternIsValid(v, instance),
                        errors |-> PatternValidate(v, instance, <<>>)]
    /\ UNCHANGED <<cache, pc, lockOwner, local, inserts, built>>
    /\ UNCHANGED <<budget, ConcFrame>>

Step(t) ==
    \/ \E frag \in ConcFragments : CallString(t, frag)
    \/ \E frag \in ConcFragments : CallOther(t, frag)
    \/ Acquire(t)
    \/ Get(t)
    \/ Convert(t)
    \/ Insert(t)
    \/ Build(t)
    \/ \E v \in built, i \in ConcInstances : ValidateBy(t, v, i)

NextConc == \E t \in Threads : Step(t)

SpecConc == InitConc /\ [][NextConc]_vars

\* A thread inside compile is at one position, so one of these is its next
\* step.
CompileStep(t) ==
    Acquire(t) \/ Get(t) \/ Convert(t) \/ Insert(t) \/ Build(t)

\* The scheduler runs a thread whose next step inside compile stays
\* possible: a holder of the lock goes on to its return, and a thread
\* waiting for a lock that stays free gets it.
FairSpecConc ==
    SpecConc /\ \A t \in Threads : WF_vars(CompileStep(t))

----------------------------------------------------------------------------
(* Claims about the concurrent runs *)

\* The positions of compile at which the guard is alive.
GuardAlive == {"get", "convert", "insert", "build"}

\* C8 as stated (its safety part): the holder of the lock only looks up or
\* updates the map and the queue, never translates a pattern; nobody waits
\* for a lock it holds; no thread outside compile holds the lock.
ShortCriticalSection ==
    \A t \in Threads :
        /\ lockOwner = t => pc[t] \in {"get", "insert", "build"}
        /\ pc[t] = "lock" => lockOwner # t
        /\ pc[t] = "idle" => lockOwner # t

\* The lock is held exactly from the return of lock() to the return of
\* compile, the translation of a missed pattern included.
HeldInsideCompile ==
    \A t \in Threads : lockOwner = t <=> pc[t] \in GuardAlive

\* A validation is made by a thread that does not hold the lock and leaves
\* the lock alone.
ValidationOutsideLock ==
    lastValidate' # lastValidate =>
        /\ lockOwner # lastValidate'.by
        /\ lockOwner' = lockOwner

\* C8 amended: while a thread holds the lock it does the map lookup and, on
\* a miss, the translation and compilation of the pattern followed by the
\* map and queue update; matching at validation time is never done under
\* the lock; a thread never waits for the lock while holding it; the lock
\* is released on every return of compile, the error returns included; so
\* every thread waiting for the lock eventually holds it.
LockDiscipline ==
    /\ []HeldInsideCompile
    /\ [][ValidationOutsideLock]_vars
    /\ \A t \in Threads : (pc[t] = "lock") ~> (lockOwner = t)

\* C8 witness: one thread translates a missed pattern under the lock while
\* another one waits for the lock.
LockDisciplineWitness ==
    \E t, u \in Threads :
        /\ pc[t] = "convert"
        /\ lockOwner = t
        /\ pc[u] = "lock"

\* Every cached matcher is the translation of its key, and the queue holds
\* every key of the map exactly once.
CacheWellFormed ==
    /\ \A k \in DOMAIN cache.map : cache.map[k] = TranslatePattern(k)
    /\ Range(cache.queue) = DOMAIN cache.map
    /\ Len(cache.queue) = Cardinality(DOMAIN cache.map)
    /\ \A k \in DOMAIN inserts : inserts[k] <= 1

\* A validator's matcher is the translation of its pattern, and the last
\* validation answered as that matcher does, cached or not.
ValidatorsUntouched ==
    /\ \A v \in built : v.pattern = TranslatePattern(v.original)
    /\ lastValidate # NoCall =>
          LET verdict == engine[<<TranslatePattern(lastValidate.original),
                                  lastValidate.instance.s>>]
          IN  /\ lastValidate.valid <=> (verdict = "true")
              /\ (lastValidate.errors = <<>>) <=> (verdict = "true")

\* A step leaves the matcher of every key that stays cached as it is, and a
\* validation leaves the cache as it is.
EntriesKept ==
    /\ \A k \in DOMAIN cache.map \cap DOMAIN cache'.map : cache'.map[k] = cache.map[k]
    /\ \A k \in DOMAIN inserts : inserts'[k] > inserts[k] => k \notin DOMAIN cache.map
    /\ lastValidate' # lastValidate => cache' = cache

\* C9: under every interleaving a cached matcher is the translation of its
\* key and is never replaced while cached (one insert per key, also when
\* two threads compile the same uncached pattern), every key occurs once
\* in the queue, and validations neither touch the cache nor depend on it:
\* a validator answers the same after its pattern was evicted.
CacheEntriesImmutable ==
    /\ []CacheWellFormed
    /\ []ValidatorsUntouched
    /\ [][EntriesKept]_vars

\* C9 witness: Pat(11) was inserted once and its validator returned, a
\* second thread compiling Pat(11) had a hit, and the validator of Pat(1)
\* was used after Pat(1) had been evicted.
CacheEntriesImmutableWitness ==
    /\ \E t \in Threads :
          /\ pc[t] = "build"
          /\ local[t].item = Str(Pat(Capacity + 1))
    /\ \E v \in built : v.original = Pat(Capacity + 1)
    /\ inserts[Pat(Capacity + 1)] = 1
    /\ lastValidate # NoCall
    /\ lastValidate.original = Pat(1)
    /\ ~lastValidate.cached

====
